---------------------------- MODULE Spec2Model ----------------------------
(***************************************************************************)
(* Plot cache of the telemetry plot widget (src/src/gui/plot.rs).          *)
(*                                                                         *)
(* The data source is a growing sequence of (Instant, VehicleState)        *)
(* pairs.  A PlotCache holds, per line, the samples extracted from it,     *)
(* the last view computed for the plot bounds and lazily computed          *)
(* statistics, plus the list of flight mode transitions and the            *)
(* fingerprint (last time, count) of the states it has cached.             *)
(*                                                                         *)
(* Modelling conventions                                                   *)
(*   Option<T>      None is <<>>, Some(x) is <<x>>                         *)
(*   Instant        a natural number (seconds)                             *)
(*   VehicleState   [t, v, mode]: the time it is stored under, the value   *)
(*                  the line's callback yields for it (Option) and its     *)
(*                  mode field (Option)                                    *)
(*   [f64; 2]       <<x, y>>                                               *)
(*   PlotBounds     <<xmin, xmax>> (only the x range is read by the cache) *)
(*   lines          one PlotCacheLine; every line runs the same code on    *)
(*                  its own callback and its own fields                    *)
(*   f64 width      view_width is an exact quotient <<num, den>> in lowest *)
(*                  terms, a zoom delta likewise                           *)
(*   Rc<RefCell<T>> the cell it points to: shared maps each cell to the    *)
(*                  SharedPlotState in it, SharedOf a chart to its cell    *)
(***************************************************************************)
EXTENDS Integers, Sequences, FiniteSets, TLC

\* ------------------------------------------------------------------ bounds

\* Vehicle states pushed to the data source in one run, over all resets.
MaxPushes == 3
\* Largest timestamp a vehicle state is stored under.
MaxT == 1

\* The most vehicle states a log file holds.
MaxLogLen == 3

\* Log files opened in one run.
MaxOpens == 2

\* Redraw passes of one run that report a zoom.
MaxZooms == 2

Times == 0..MaxT
\* Values a line's callback yields (f32, cast to f64 without loss).
Values == {1, 2}
\* Flight modes seen in the model.
Modes == {"A", "B"}
\* x coordinates the plot bounds are drawn from: the plotted times and one
\* value past them.
BoundXs == 0..(MaxT + 1)
\* PlotBounds with a valid x range (min <= max), as egui_plot reports them.
Bounds == {b \in BoundXs \X BoundXs : b[1] <= b[2]}

None == <<>>
Some(x) == <<x>>

Min(a, b) == IF a <= b THEN a ELSE b

VARIABLES
    source,           \* data_source.vehicle_states(): Seq of [t, v, mode]
    data,             \* PlotCacheLine.data
    stats,            \* PlotCacheLine.stats
    last_bounds,      \* PlotCacheLine.last_bounds
    last_view,        \* PlotCacheLine.last_view
    mode_transitions, \* PlotCache.mode_transitions
    cached_state,     \* PlotCache.cached_state
    ret,              \* value returned by the last data_for_bounds call
    pc,               \* where the redraw stands: "idle" between calls,
                      \* in plot_lines "window" after its diff step and
                      \* "stats" after its window query
    \* history variables (read by no action's guard or program assignment)
    dataOrigin,       \* per sample of data: "cur" if extracted from the
                      \* present source, "old" if from one since reset
    transOrigin,      \* the same per entry of mode_transitions
    appendOnly,       \* the source has only ever been appended to
    lastDiff,         \* what the last diff call did, "none" once the source
                      \* changed after it: clear, idle, append, build (no
                      \* fingerprint was remembered) or rebuild
    appends,          \* diff calls so far that appended, as the counted
                      \* mode_lines calls of the diff engine count them
    lastCall,         \* Some([b, again]) for the last data_for_bounds call
                      \* while the samples are those it saw, again telling
                      \* whether the call before it had the same bounds
    pushed,           \* vehicle states pushed so far
    opened,           \* log files opened so far
    shared,           \* per cell, the SharedPlotState in it
    cache_reset_on_next_draw, \* per chart, PlotCache.reset_on_next_draw
    zooms,            \* redraw passes so far that reported a zoom
    lastPass,         \* Some(record of the last plot_telemetry pass), see
                      \* PassRecord, or of the last process_zoom call of the
                      \* zoom specification (history)
    lastStats         \* Some([val, b]): what the last stats() call returned
                      \* and the bounds of the window query before it, while
                      \* the samples are those it saw and no window query
                      \* with other bounds followed; recorded by the tracked
                      \* redraw steps only

cacheVars == <<data, stats, last_bounds, last_view, mode_transitions, cached_state, ret>>
histVars == <<dataOrigin, transOrigin, appendOnly, lastDiff, appends, lastCall, pushed,
              opened>>
viewVars == <<shared, cache_reset_on_next_draw, zooms, lastPass>>
vars == <<source, cacheVars, pc, histVars, lastStats, viewVars>>

\* ------------------------------------------------------------ data source

VehicleStates == [t : Times, v : {None} \cup {Some(y) : y \in Values},
                  mode : {None} \cup {Some(m) : m \in Modes}]

\* plot_time: seconds since the first vehicle state of the data source.
PlotTime(x, src) ==
    IF src # <<>>
    THEN (IF x >= src[1].t THEN x - src[1].t ELSE 0)
    ELSE 0

\* A new vehicle state arrives: the source appends it under a time not
\* before its last one.
Push(t, v, m) ==
    /\ pc = "idle"
    /\ pushed < MaxPushes
    /\ source # <<>> => t >= source[Len(source)].t
    /\ source' = Append(source, [t |-> t, v |-> v, mode |-> m])
    /\ pushed' = pushed + 1
    /\ pc' = pc
    /\ lastDiff' = "none"
    /\ UNCHANGED <<cacheVars, dataOrigin, transOrigin, appendOnly, appends, lastCall,
                   opened, lastStats, viewVars>>

\* Reset / open or close a log file: the source starts over, empty. What
\* the cache still holds now stems from an earlier source.
Reset ==
    /\ pc = "idle"
    /\ pc' = pc
    /\ source # <<>>
    /\ source' = <<>>
    /\ dataOrigin' = [i \in 1..Len(dataOrigin) |-> "old"]
    /\ transOrigin' = [i \in 1..Len(transOrigin) |-> "old"]
    /\ appendOnly' = FALSE
    /\ lastDiff' = "none"
    /\ UNCHANGED <<cacheVars, appends, lastCall, pushed, opened, lastStats, viewVars>>

\* The contents of a log file: vehicle states in time order, with or without
\* a value for the line.
LogStates == [t : Times, v : {None, Some(1)}, mode : {None}]

LogFiles ==
    UNION {{f \in [1..n -> LogStates] : \A i \in 1..(n - 1) : f[i].t <= f[i + 1].t} :
           n \in 1..MaxLogLen}

\* Sam::open_log_file: reset, then the data source is the log file, holding
\* all its vehicle states at once.
OpenLogFile(ds) ==
    /\ pc = "idle"
    /\ opened < MaxOpens
    /\ pc' = pc
    /\ source' = ds
    /\ dataOrigin' = [i \in 1..Len(dataOrigin) |-> "old"]
    /\ transOrigin' = [i \in 1..Len(transOrigin) |-> "old"]
    /\ appendOnly' = FALSE
    /\ lastDiff' = "none"
    /\ opened' = opened + 1
    /\ UNCHANGED <<cacheVars, appends, lastCall, pushed, lastStats, viewVars>>

\* ------------------------------------------------------------- line cache

\* The iterator of update_cache: the states after the first keep_first,
\* those the callback yields a value for, as [plot_time, value].
NewData(src, keep_first) ==
    LET rest == SubSeq(src, keep_first + 1, Len(src))
        kept == SelectSeq(rest, LAMBDA s : s.v # None)
    IN  [i \in 1..Len(kept) |-> <<PlotTime(kept[i].t, src), kept[i].v[1]>>]

\* UpdateCache, had it always replaced the samples by the new ones.
UpdateCacheAlwaysCollect(old, src, keep_first) == NewData(src, keep_first)

\* PlotCacheLine::update_cache
UpdateCache(old, src, keep_first) ==
    IF keep_first > 0
    THEN old \o NewData(src, keep_first)
    ELSE NewData(src, keep_first)

\* ClearCache, had it left the samples in place.
ClearCacheKeeping(old) == old

\* PlotCacheLine::clear_cache
ClearCache(old) == SubSeq(old, 1, 0)

\* ------------------------------------------------------- mode transitions

\* The scan of update_mode_transition_cache over the states that have a
\* mode: emit [plot_time, mode] whenever the mode differs from the state.
RECURSIVE Scan(_, _, _)
Scan(rest, state, src) ==
    IF rest = <<>> THEN <<>>
    ELSE LET s == Head(rest)
         IN  IF s.mode # state
             THEN <<<<PlotTime(s.t, src), s.mode[1]>>>> \o Scan(Tail(rest), s.mode, src)
             ELSE Scan(Tail(rest), state, src)

\* LastMode, had the scan always started from no known mode.
LastModeForgotten(old, keep_first) == None

LastMode(old, keep_first) ==
    IF keep_first > 0
    THEN (IF old = <<>> THEN None ELSE Some(old[Len(old)][2]))
    ELSE None

\* NewTransitions, had a state without a mode reset the last known mode.
NewTransitionsResetting(old, src, keep_first) ==
    LET RECURSIVE ScanAll(_, _)
        ScanAll(rest, state) ==
            IF rest = <<>> THEN <<>>
            ELSE LET s == Head(rest)
                 IN  IF s.mode = None THEN ScanAll(Tail(rest), None)
                     ELSE IF s.mode # state
                     THEN <<<<PlotTime(s.t, src), s.mode[1]>>>> \o ScanAll(Tail(rest), s.mode)
                     ELSE ScanAll(Tail(rest), state)
    IN  ScanAll(SubSeq(src, keep_first + 1, Len(src)), LastMode(old, keep_first))

NewTransitions(old, src, keep_first) ==
    LET rest == SubSeq(src, keep_first + 1, Len(src))
        withMode == SelectSeq(rest, LAMBDA s : s.mode # None)
    IN  Scan(withMode, LastMode(old, keep_first), src)

\* UpdateModeTransitionCache, had it always replaced the list by the new
\* transitions.
UpdateModeTransitionCacheAlwaysCollect(old, src, keep_first) ==
    NewTransitions(old, src, keep_first)

\* PlotCache::update_mode_transition_cache
UpdateModeTransitionCache(old, src, keep_first) ==
    IF keep_first > 0
    THEN old \o NewTransitions(old, src, keep_first)
    ELSE NewTransitions(old, src, keep_first)

\* ------------------------------------------------------------ diff engine

\* Fingerprint, had it carried the states themselves as a flight identifier.
FingerprintWithContent(src) == Some(<<src[Len(src)].t, Len(src), src>>)

\* (last time, count) of a non-empty source, as compared with cached_state.
Fingerprint(src) == Some(<<src[Len(src)].t, Len(src)>>)

OldLen(cs) == IF cs = None THEN 0 ELSE cs[1][2]

\* KeepFirst without the look at the state in the old last position.
KeepFirstUnchecked(cs, src) ==
    IF Len(src) > OldLen(cs) THEN OldLen(cs) ELSE 0

\* keep_first of update_caches_if_necessary: the old count when the source
\* grew and the state at the old last position still has the cached time.
KeepFirst(cs, src) ==
    LET new_len == Len(src)
        old_len == OldLen(cs)
        keep == IF new_len > old_len THEN old_len ELSE 0
    IN  IF keep > 0
        THEN (IF cs = None \/ cs[1][1] # src[keep].t THEN 0 ELSE keep)
        ELSE keep

\* CachedStateAfter, had an empty source left the fingerprint in place.
CachedStateKeptOnEmpty(cs, src) ==
    IF Len(src) = 0 THEN cs
    ELSE IF Fingerprint(src) = cs THEN cs
    ELSE Fingerprint(src)

\* CachedStateAfter, had an append left the fingerprint as it was.
CachedStateStaleOnAppend(cs, src) ==
    IF Len(src) = 0 THEN None
    ELSE IF Fingerprint(src) = cs THEN cs
    ELSE IF KeepFirst(cs, src) > 0 THEN cs
    ELSE Fingerprint(src)

\* self.cached_state when update_caches_if_necessary returns: forgotten on
\* an empty source, kept when it equals the source's fingerprint, else set
\* to that fingerprint.
CachedStateAfter(cs, src) ==
    IF Len(src) = 0 THEN None
    ELSE IF Fingerprint(src) = cs THEN cs
    ELSE Fingerprint(src)

\* Origins of the samples after an update that kept the first n of them.
NewOrigin(oldOrigin, keep_first, oldLen, newLen) ==
    IF keep_first > 0
    THEN oldOrigin \o [i \in 1..(newLen - oldLen) |-> "cur"]
    ELSE [i \in 1..newLen |-> "cur"]

\* Which way a diff call on (cs, src) goes.
DiffPath(cs, src) ==
    IF Len(src) = 0 THEN "clear"
    ELSE IF Fingerprint(src) = cs THEN "idle"
    ELSE IF KeepFirst(cs, src) > 0 THEN "append"
    ELSE IF cs = None THEN "build"
    ELSE "rebuild"

\* PlotCache::update_caches_if_necessary
UpdateCachesIfNecessary ==
    /\ lastDiff' = DiffPath(cached_state, source)
    /\ UNCHANGED <<source, stats, last_bounds, last_view, ret, appendOnly, pushed,
                   opened>>
    /\ cached_state' = CachedStateAfter(cached_state, source)
    /\ IF Len(source) = 0
       THEN /\ mode_transitions' = SubSeq(mode_transitions, 1, 0)
            /\ data' = ClearCache(data)
            /\ dataOrigin' = <<>>
            /\ transOrigin' = <<>>
       ELSE IF Fingerprint(source) = cached_state
            THEN UNCHANGED <<data, mode_transitions, dataOrigin, transOrigin>>
            ELSE LET keep_first == KeepFirst(cached_state, source)
                 IN  /\ data' = UpdateCache(data, source, keep_first)
                     /\ mode_transitions' =
                            UpdateModeTransitionCache(mode_transitions, source, keep_first)
                     /\ dataOrigin' = NewOrigin(dataOrigin, keep_first, Len(data), Len(data'))
                     /\ transOrigin' = NewOrigin(transOrigin, keep_first,
                                                 Len(mode_transitions), Len(mode_transitions'))
    /\ lastCall' = IF data' = data THEN lastCall ELSE None

\* ---------------------------------------------------------- window query

\* slice::partition_point with the predicate d[0] < x: the number of leading
\* samples below x when the slice is partitioned by it; "unspecified" by the
\* standard library otherwise, so any index of the slice.
Partitioned(seq, x) ==
    \A i, j \in 1..Len(seq) : (i < j /\ seq[j][1] < x) => seq[i][1] < x

PartitionPoint(seq, x) ==
    IF Partitioned(seq, x)
    THEN {Cardinality({i \in 1..Len(seq) : seq[i][1] < x})}
    ELSE 0..Len(seq)

\* imin.saturating_sub(1)
LowerPad(imin) == IF imin > 0 THEN imin - 1 ELSE 0

\* UpperPad, had the padded index been clamped to the length.
UpperPadToLen(imax, len) == Min(imax + 1, len)

\* UpperPad, had the padded index not been clamped.
UpperPadUnclamped(imax, len) == imax + 1

\* usize::min(imax + 1, self.data.len() - 1)
UpperPad(imax, len) == Min(imax + 1, len - 1)

\* self.data[imin..imax].to_vec() for 0-based imin, exclusive imax
Slice(seq, imin, imax) == SubSeq(seq, imin + 1, imax)

\* The index pairs <<imin, imax>> data_for_bounds can slice the samples d
\* with for the bounds b.
WindowIndices(d, b) ==
    UNION {{<<LowerPad(imin), UpperPad(imin + k, Len(d))>> :
              k \in PartitionPoint(SubSeq(d, imin + 1, Len(d)), b[2])} :
           imin \in PartitionPoint(d, b[1])}

\* The views data_for_bounds can compute for the bounds b.
Views(d, b) ==
    UNION {{Slice(d, LowerPad(imin), UpperPad(imin + k, Len(d))) :
              k \in PartitionPoint(SubSeq(d, imin + 1, Len(d)), b[2])} :
           imin \in PartitionPoint(d, b[1])}

\* StatsOnNewView, had a new view left the statistics in place.
StatsKeptOnNewView(old) == old

\* self.stats = None where data_for_bounds stores a new view
StatsOnNewView(old) == None

\* BoundsChanged, had the view been computed anew on every call.
BoundsChangedAlways(lb, b) == TRUE

\* self.last_bounds.map(|b| b != bounds).unwrap_or(true)
BoundsChanged(lb, b) == IF lb = None THEN TRUE ELSE lb[1] # b

\* DataForBounds, had a change of the samples since the last call made it
\* compute the view anew.
DataForBoundsInvalidated(b) ==
    /\ lastCall' = Some([b |-> b, again |-> lastCall # None /\ lastCall[1].b = b])
    /\ UNCHANGED <<source, data, mode_transitions, cached_state,
                   dataOrigin, transOrigin, appendOnly, lastDiff, appends, pushed,
                   opened>>
    /\ IF Len(source) = 0 \/ data = <<>>
       THEN /\ last_bounds' = None
            /\ stats' = None
            /\ ret' = <<>>
            /\ UNCHANGED last_view
       ELSE IF BoundsChanged(last_bounds, b) \/ lastCall = None
            THEN /\ last_view' \in Views(data, b)
                 /\ last_bounds' = Some(b)
                 /\ stats' = StatsOnNewView(stats)
                 /\ ret' = last_view'
            ELSE /\ ret' = last_view
                 /\ UNCHANGED <<last_view, last_bounds, stats>>

\* PlotCacheLine::data_for_bounds
DataForBounds(b) ==
    /\ lastCall' = Some([b |-> b, again |-> lastCall # None /\ lastCall[1].b = b])
    /\ UNCHANGED <<source, data, mode_transitions, cached_state,
                   dataOrigin, transOrigin, appendOnly, lastDiff, appends, pushed,
                   opened>>
    /\ IF Len(source) = 0 \/ data = <<>>
       THEN /\ last_bounds' = None
            /\ stats' = None
            /\ ret' = <<>>
            /\ UNCHANGED last_view
       ELSE IF BoundsChanged(last_bounds, b)
            THEN /\ last_view' \in Views(data, b)
                 /\ last_bounds' = Some(b)
                 /\ stats' = StatsOnNewView(stats)
                 /\ ret' = last_view'
            ELSE /\ ret' = last_view
                 /\ UNCHANGED <<last_view, last_bounds, stats>>

\* ------------------------------------------------------------- statistics

RECURSIVE SumOf(_)
SumOf(seq) == IF seq = <<>> THEN 0 ELSE Head(seq) + SumOf(Tail(seq))

Ys(view) == [i \in 1..Len(view) |-> view[i][2]]

RECURSIVE GCD(_, _)
GCD(a, b) == IF b = 0 THEN a ELSE GCD(b, a % b)

\* The quotient num / den (num >= 0, den > 0) in lowest terms, so that equal
\* quotients are equal values.
Fraction(num, den) == <<num \div GCD(num, den), den \div GCD(num, den)>>

\* StatsOf, had min and max been read off the two ends of the view.
StatsOfEnds(view) ==
    LET ys == Ys(view)
        n == Len(ys)
        s == SumOf(ys)
        q == SumOf([i \in 1..n |-> (n * ys[i] - s) * (n * ys[i] - s)])
    IN  <<Fraction(s, n), Fraction(q, n * n * n), ys[1], ys[n]>>

\* (mean, std_dev, min, max) of a non-empty view. The mean is the quotient
\* sum / count; the standard deviation, the root of the mean squared
\* deviation, is kept as the quotient under the root, q / count^3 with q the
\* sum of (count * y - sum)^2.
StatsOf(view) ==
    LET ys == Ys(view)
        n == Len(ys)
        s == SumOf(ys)
        q == SumOf([i \in 1..n |-> (n * ys[i] - s) * (n * ys[i] - s)])
        lo == CHOOSE y \in {ys[i] : i \in 1..n} : \A i \in 1..n : y <= ys[i]
        hi == CHOOSE y \in {ys[i] : i \in 1..n} : \A i \in 1..n : y >= ys[i]
    IN  <<Fraction(s, n), Fraction(q, n * n * n), lo, hi>>

\* PlotCacheLine::stats
Stats ==
    /\ IF stats = None /\ Len(last_view) > 0
       THEN stats' = Some(StatsOf(last_view))
       ELSE UNCHANGED stats
    /\ UNCHANGED <<source, data, last_bounds, last_view, mode_transitions,
                   cached_state, ret, histVars>>

\* ----------------------------------------------------------------- redraw

\* PlotCache::mode_lines: the diff step, then the transitions are read.
ModeLines ==
    /\ pc = "idle"
    /\ UpdateCachesIfNecessary
    /\ pc' = "idle"
    /\ UNCHANGED <<appends, lastStats, viewVars>>

\* mode_lines with the diff calls that appended counted.
ModeLinesCounted ==
    /\ pc = "idle"
    /\ UpdateCachesIfNecessary
    /\ pc' = "idle"
    /\ appends' = IF lastDiff' = "append" THEN appends + 1 ELSE appends
    /\ UNCHANGED <<lastStats, viewVars>>

\* PlotCache::plot_lines, its diff step.
PlotLinesUpdate ==
    /\ pc = "idle"
    /\ UpdateCachesIfNecessary
    /\ pc' = "window"
    /\ UNCHANGED <<appends, lastStats, viewVars>>

\* PlotCache::plot_lines, the line's window query for the plot bounds.
PlotLinesData(bounds) ==
    /\ pc = "window"
    /\ DataForBounds(bounds)
    /\ pc' = "stats"
    /\ UNCHANGED <<lastStats, viewVars>>

\* PlotCache::plot_lines, the line's statistics when show_stats is set.
PlotLinesStats(show_stats) ==
    /\ pc = "stats"
    /\ IF show_stats THEN Stats ELSE UNCHANGED <<source, cacheVars, histVars>>
    /\ pc' = "idle"
    /\ UNCHANGED <<lastStats, viewVars>>

\* The diff step of plot_lines, with the record of the stats() calls kept: a
\* change of the samples forgets it.
PlotLinesUpdateTracked ==
    /\ pc = "idle"
    /\ UpdateCachesIfNecessary
    /\ pc' = "window"
    /\ lastStats' = IF data' = data THEN lastStats ELSE None
    /\ UNCHANGED <<appends, viewVars>>

\* The window query of plot_lines, with the record of the stats() calls kept:
\* a query with other bounds than those of the recorded call forgets it.
PlotLinesDataTracked(bounds) ==
    /\ pc = "window"
    /\ DataForBounds(bounds)
    /\ pc' = "stats"
    /\ lastStats' = IF lastStats # None /\ lastStats[1].b # bounds THEN None ELSE lastStats
    /\ UNCHANGED viewVars

\* The stats step of plot_lines, with what stats() returned recorded.
PlotLinesStatsTracked(show_stats) ==
    /\ pc = "stats"
    /\ pc' = "idle"
    /\ IF show_stats
       THEN /\ Stats
            /\ lastStats' = Some([val |-> stats', b |-> lastCall[1].b])
       ELSE UNCHANGED <<source, cacheVars, histVars, lastStats>>
    /\ UNCHANGED viewVars

\* --------------------------------------------------------------- viewport

\* Two of the plots of the plot tab.
Charts == {"orientation", "vertical_speed"}

\* The cells a SharedPlotState can live in: the one PlotTab::init makes, and
\* one more.
Cells == {"shared_plot", "other"}

\* SharedOf, had a plot been given a SharedPlotState of its own.
SharedOfItsOwn(c) == IF c = "orientation" THEN "shared_plot" ELSE "other"

\* PlotState.shared: PlotTab::init hands every plot a clone of the one Rc.
SharedOf(c) == "shared_plot"

\* The shared state the chart c works on.
Viewport(c) == shared[SharedOf(c)]

\* The fields of the shared state that link the charts.
LinkedFields(s) == <<s.attached_to_edge, s.view_width, s.box_dragging>>

\* SharedPlotState::new (start, end and show_stats are not read by the
\* interaction handling)
SharedPlotStateNew ==
    [attached_to_edge |-> TRUE,
     view_width |-> <<10, 1>>,
     reset_on_next_draw |-> FALSE,
     box_dragging |-> FALSE]

\* egui's zoom_delta_2d().x: 1 without a zoom, else the zoom factor (here
\* that of zooming in to half the width).
NoZoom == <<1, 1>>
ZoomDeltas == {NoZoom, <<2, 1>>}

\* What the toolkit reports to one pass: whether the pointer hovers the
\* plot, the zoom and horizontal scroll deltas of the frame (neutral where
\* nothing hovers: the pass reads them under a hover position only), who
\* drags, a primary double click and a drag release.
Events ==
    {ev \in [hover : BOOLEAN, zoom_delta : ZoomDeltas, scroll : BOOLEAN,
             dragged_primary : BOOLEAN, double_clicked : BOOLEAN,
             drag_released : BOOLEAN, dragged_secondary : BOOLEAN] :
        ~ev.hover => (ev.zoom_delta = NoZoom /\ ~ev.scroll)}

\* ProcessZoom, had a zoom only ever set the reset flag.
ProcessZoomKeepingPending(s, zoom_delta) ==
    [s EXCEPT !.view_width = Fraction(s.view_width[1] * zoom_delta[2],
                                      s.view_width[2] * zoom_delta[1]),
              !.reset_on_next_draw = s.reset_on_next_draw \/ s.attached_to_edge]

\* ProcessZoom, had it left the reset flag alone.
ProcessZoomWithoutReset(s, zoom_delta) ==
    [s EXCEPT !.view_width = Fraction(s.view_width[1] * zoom_delta[2],
                                      s.view_width[2] * zoom_delta[1])]

\* The pass was reported a zoom.
ZoomReported(ev) == ev.hover /\ ev.zoom_delta # NoZoom

\* The pass was reported no gesture at all (the pointer may hover).
NoEvents(ev) ==
    /\ ev.zoom_delta = NoZoom
    /\ ~ev.scroll
    /\ ~ev.dragged_primary
    /\ ~ev.double_clicked
    /\ ~ev.drag_released
    /\ ~ev.dragged_secondary

\* The pass was reported a zoom and nothing else.
ZoomOnly(ev) == ZoomReported(ev) /\ NoEvents([ev EXCEPT !.zoom_delta = NoZoom])

\* The pass was reported a primary drag and nothing else.
PrimaryDragOnly(ev) ==
    ev.dragged_primary /\ NoEvents([ev EXCEPT !.dragged_primary = FALSE])

\* The pass was reported a primary double click and nothing else.
DoubleClickOnly(ev) ==
    ev.double_clicked /\ NoEvents([ev EXCEPT !.double_clicked = FALSE])

\* {Attached, Idle}: attached to the edge, no box drag under way, no reset
\* pending.
AttachedIdle(s) ==
    s.attached_to_edge /\ ~s.box_dragging /\ ~s.reset_on_next_draw

\* SharedPlotState::process_zoom
ProcessZoom(s, zoom_delta) ==
    [s EXCEPT !.view_width = Fraction(s.view_width[1] * zoom_delta[2],
                                      s.view_width[2] * zoom_delta[1]),
              !.reset_on_next_draw = s.attached_to_edge]

\* ProcessBoxDragging, had it stored the argument as it came.
ProcessBoxDraggingOverwriting(s, box_dragging) ==
    [s EXCEPT !.box_dragging = box_dragging]

\* SharedPlotState::process_box_dragging
ProcessBoxDragging(s, box_dragging) ==
    [s EXCEPT !.box_dragging = s.box_dragging \/ box_dragging]

\* ProcessDragReleased, had the release only ended the box drag.
ProcessDragReleasedKeepingEdge(s, released) ==
    IF released /\ s.box_dragging
    THEN [s EXCEPT !.box_dragging = FALSE]
    ELSE s

\* SharedPlotState::process_drag_released
ProcessDragReleased(s, released) ==
    IF released /\ s.box_dragging
    THEN [s EXCEPT !.attached_to_edge = FALSE, !.box_dragging = FALSE]
    ELSE s

\* ResetRequested, had the reset block looked at the chart's own flag only.
ResetRequestedByCacheOnly(s, cache_flag) == cache_flag

\* cache.reset_on_next_draw || shared.reset_on_next_draw
ResetRequested(s, cache_flag) == cache_flag \/ s.reset_on_next_draw

\* HonorReset, had the reset block cleared the flag and left the edge alone.
HonorResetWithoutAttaching(s, cache_flag) ==
    IF ResetRequested(s, cache_flag)
    THEN [s EXCEPT !.reset_on_next_draw = FALSE]
    ELSE s

\* HonorReset, had the reset block left the shared flag set.
HonorResetKeepingFlag(s, cache_flag) ==
    IF ResetRequested(s, cache_flag)
    THEN [s EXCEPT !.attached_to_edge = TRUE]
    ELSE s

\* The shared state after the reset block of plot_telemetry.
HonorReset(s, cache_flag) ==
    IF ResetRequested(s, cache_flag)
    THEN [s EXCEPT !.reset_on_next_draw = FALSE, !.attached_to_edge = TRUE]
    ELSE s

\* The cache's flag after the reset block of plot_telemetry.
CacheFlagAfterReset(s, cache_flag) ==
    IF ResetRequested(s, cache_flag) THEN FALSE ELSE cache_flag

\* HoverBlock, had the horizontal scroll been left out.
HoverBlockWithoutScroll(s, ev) ==
    IF ev.hover /\ ev.zoom_delta # NoZoom
    THEN ProcessZoom(s, ev.zoom_delta)
    ELSE s

\* The hover block of plot_telemetry: a zoom, else a horizontal scroll.
HoverBlock(s, ev) ==
    IF ev.hover
    THEN IF ev.zoom_delta # NoZoom
         THEN ProcessZoom(s, ev.zoom_delta)
         ELSE IF ev.scroll
              THEN [s EXCEPT !.attached_to_edge = FALSE]
              ELSE s
    ELSE s

\* if ir.response.dragged_by(PointerButton::Primary)
PrimaryDragBlock(s, ev) ==
    IF ev.dragged_primary THEN [s EXCEPT !.attached_to_edge = FALSE] ELSE s

\* DoubleClickBlock, had the double click asked for a reset as well.
DoubleClickBlockWithReset(s, ev) ==
    IF ev.double_clicked
    THEN [s EXCEPT !.attached_to_edge = TRUE, !.reset_on_next_draw = TRUE]
    ELSE s

\* if ir.response.double_clicked_by(PointerButton::Primary)
DoubleClickBlock(s, ev) ==
    IF ev.double_clicked THEN [s EXCEPT !.attached_to_edge = TRUE] ELSE s

\* The shared state as plot_telemetry hands it to process_drag_released.
BeforeRelease(s, cache_flag, ev) ==
    DoubleClickBlock(PrimaryDragBlock(HoverBlock(HonorReset(s, cache_flag), ev), ev), ev)

\* The shared state at the end of plot_telemetry.
AfterPass(s, cache_flag, ev) ==
    ProcessBoxDragging(ProcessDragReleased(BeforeRelease(s, cache_flag, ev),
                                           ev.drag_released),
                       ev.dragged_secondary)

\* What is recorded of a pass: the chart, the events reported to it, the
\* shared state it read at its start, whether it applied an axis reset, the
\* two reset flags when the plot was shown, the shared state before and
\* after process_drag_released, and whether a drag ended with this pass (a
\* primary drag reported, or a release processed while box_dragging, and no
\* double click with it) or with an earlier one that only passes without
\* events followed; whether this pass reported a double click alone right
\* after a pass that started {Attached, Idle} and reported a primary drag
\* alone, and whether it is the pass after such a one; whether the pass
\* before this one was another chart's and changed a linked field.
PassRecord(c, ev) ==
    LET s == shared[SharedOf(c)]
        f == cache_reset_on_next_draw[c]
    IN  [chart |-> c,
         ev |-> ev,
         read |-> s,
         read_cache |-> f,
         applied |-> ResetRequested(s, f),
         shown |-> [cache |-> CacheFlagAfterReset(s, f),
                    shared |-> HonorReset(s, f).reset_on_next_draw],
         before_release |-> BeforeRelease(s, f, ev),
         after_release |-> ProcessDragReleased(BeforeRelease(s, f, ev), ev.drag_released),
         since_drag |-> \/ ev.dragged_primary /\ ~ev.double_clicked
                        \/ ev.drag_released /\ s.box_dragging /\ ~ev.double_clicked
                        \/ NoEvents(ev) /\ lastPass # None /\ lastPass[1].since_drag,
         click_after_drag |-> /\ DoubleClickOnly(ev)
                              /\ lastPass # None
                              /\ PrimaryDragOnly(lastPass[1].ev)
                              /\ AttachedIdle(lastPass[1].read),
         after_click |-> lastPass # None /\ lastPass[1].click_after_drag,
         after_other |-> /\ lastPass # None
                         /\ lastPass[1].chart # c
                         /\ LinkedFields(Viewport(lastPass[1].chart)) #
                                LinkedFields(lastPass[1].read)]

\* PlotUiExt::plot_telemetry for the chart c, one redraw pass: the reset
\* block, the plot shown, the interaction folded into the shared state. The
\* data source of the viewport specification is empty and the cache as
\* PlotCache::new left it, so that the plot_lines and mode_lines calls of
\* the pass take their empty branches and leave the cache as it is.
PlotTelemetry(c, ev) ==
    /\ pc = "idle"
    /\ source = <<>>
    /\ data = <<>>
    /\ ZoomReported(ev) => zooms < MaxZooms
    /\ zooms' = IF ZoomReported(ev) THEN zooms + 1 ELSE zooms
    /\ shared' = [shared EXCEPT ![SharedOf(c)] =
                      AfterPass(shared[SharedOf(c)], cache_reset_on_next_draw[c], ev)]
    /\ cache_reset_on_next_draw' =
           [cache_reset_on_next_draw EXCEPT ![c] =
               CacheFlagAfterReset(shared[SharedOf(c)], cache_reset_on_next_draw[c])]
    /\ lastPass' = Some(PassRecord(c, ev))
    /\ UNCHANGED <<source, cacheVars, pc, histVars, lastStats>>

\* A reset of the chart c is requested through its cache (PlotState::reset
\* and PlotState::show_all, called by the plot tab).
RequestReset(c) ==
    /\ ~cache_reset_on_next_draw[c]
    /\ cache_reset_on_next_draw' = [cache_reset_on_next_draw EXCEPT ![c] = TRUE]
    /\ UNCHANGED <<source, cacheVars, pc, histVars, lastStats, shared, zooms, lastPass>>

\* ----------------------------------------------------------- specification

\* PlotCache::new, PlotCacheLine::new, and an empty data source.
Init ==
    /\ source = <<>>
    /\ data = <<>>
    /\ stats = None
    /\ last_bounds = None
    /\ last_view = <<>>
    /\ mode_transitions = <<>>
    /\ cached_state = None
    /\ ret = <<>>
    /\ pc = "idle"
    /\ dataOrigin = <<>>
    /\ transOrigin = <<>>
    /\ appendOnly = TRUE
    /\ lastDiff = "none"
    /\ appends = 0
    /\ lastCall = None
    /\ pushed = 0
    /\ opened = 0
    /\ lastStats = None
    /\ shared = [k \in Cells |-> SharedPlotStateNew]
    /\ cache_reset_on_next_draw = [c \in Charts |-> FALSE]
    /\ zooms = 0
    /\ lastPass = None

\* The redraws of one plot over a data source that grows and is reset
\* between them, fed vehicle states that carry no mode (mode is None until
\* a TelemetryMain message came in).
Next ==
    \/ \E s \in {x \in VehicleStates : x.mode = None} : Push(s.t, s.v, s.mode)
    \/ Reset
    \/ ModeLines
    \/ PlotLinesUpdate
    \/ \E b \in Bounds : PlotLinesData(b)
    \/ \E show_stats \in BOOLEAN : PlotLinesStats(show_stats)

Spec == Init /\ [][Next]_vars

\* The diff engine alone, as mode_lines runs it, fed every vehicle state.
NextDiff ==
    \/ \E s \in VehicleStates : Push(s.t, s.v, s.mode)
    \/ Reset
    \/ ModeLinesCounted

SpecDiff == Init /\ [][NextDiff]_vars

\* The redraws of Spec with the stats() calls recorded.
NextStats ==
    \/ \E s \in {x \in VehicleStates : x.mode = None} : Push(s.t, s.v, s.mode)
    \/ Reset
    \/ PlotLinesUpdateTracked
    \/ \E b \in Bounds : PlotLinesDataTracked(b)
    \/ \E show_stats \in BOOLEAN : PlotLinesStatsTracked(show_stats)

SpecStats == Init /\ [][NextStats]_vars

\* The diff engine over log files that are opened and closed between the
\* redraws.
NextLog ==
    \/ \E ds \in LogFiles : OpenLogFile(ds)
    \/ Reset
    \/ ModeLinesCounted

SpecLog == Init /\ [][NextLog]_vars

\* The redraw passes of the linked charts over an empty data source, with
\* the interaction the toolkit reports to them and the resets requested of
\* single charts.
NextView ==
    \/ \E c \in Charts, ev \in Events : PlotTelemetry(c, ev)
    \/ \E c \in Charts : RequestReset(c)

SpecView == Init /\ [][NextView]_vars

\* The values of the fields of a SharedPlotState that the interaction
\* handling reads, at the width SharedPlotState::new gives it.
SharedPlotStates ==
    [attached_to_edge : BOOLEAN,
     view_width : {<<10, 1>>},
     reset_on_next_draw : BOOLEAN,
     box_dragging : BOOLEAN]

\* A caller of the pub fn process_zoom zooms the state in the cell k; the
\* call is recorded with the state it found.
ProcessZoomCall(k, zoom_delta) ==
    /\ zooms < MaxZooms
    /\ zooms' = zooms + 1
    /\ shared' = [shared EXCEPT ![k] = ProcessZoom(shared[k], zoom_delta)]
    /\ lastPass' = Some([cell |-> k, read |-> shared[k], zoom_delta |-> zoom_delta])
    /\ UNCHANGED <<source, cacheVars, pc, histVars, lastStats, cache_reset_on_next_draw>>

\* process_zoom as a function of the state it is called on: the cells start
\* with any values of the pub fields.
InitZoom ==
    /\ source = <<>>
    /\ data = <<>>
    /\ stats = None
    /\ last_bounds = None
    /\ last_view = <<>>
    /\ mode_transitions = <<>>
    /\ cached_state = None
    /\ ret = <<>>
    /\ pc = "idle"
    /\ dataOrigin = <<>>
    /\ transOrigin = <<>>
    /\ appendOnly = TRUE
    /\ lastDiff = "none"
    /\ appends = 0
    /\ lastCall = None
    /\ pushed = 0
    /\ opened = 0
    /\ lastStats = None
    /\ shared \in [Cells -> SharedPlotStates]
    /\ cache_reset_on_next_draw = [c \in Charts |-> FALSE]
    /\ zooms = 0
    /\ lastPass = None

NextZoom == \E k \in Cells, zd \in ZoomDeltas \ {NoZoom} : ProcessZoomCall(k, zd)

SpecZoom == InitZoom /\ [][NextZoom]_vars

\* ------------------------------------------------------------------ claims

\* What a single full rebuild (keep_first = 0) over src leaves in a line and
\* in the transition list.
FullData(src) == UpdateCache(<<>>, src, 0)
FullTransitions(src) == UpdateModeTransitionCache(<<>>, src, 0)

IsPrefix(p, q) == Len(p) <= Len(q) /\ SubSeq(q, 1, Len(p)) = p

\* The fingerprint a source shows to the diff engine: absent when empty.
SourceFingerprint(src) == IF src = <<>> THEN None ELSE Fingerprint(src)

\* The append case as the diff engine's contract words it: the count grew
\* past a remembered count > 0 and the state at index (remembered count - 1)
\* carries the remembered last time.
ConfirmedAppend(cs, src) ==
    /\ cs # None
    /\ cs[1][2] > 0
    /\ Len(src) > cs[1][2]
    /\ src[cs[1][2]].t = cs[1][1]

\* [plot_time, mode] of the states of src after the first n that have a mode.
ModePointsFrom(src, n) ==
    {<<PlotTime(src[i].t, src), src[i].mode[1]>> :
        i \in {k \in (n + 1)..Len(src) : src[k].mode # None}}

\* C1 (Coherency): while the source has only ever been appended to, after
\* every diff call, however many growth steps it took to get there, the
\* line's samples and the transition list equal those of one full rebuild
\* over the whole source.
C1_Coherency ==
    (appendOnly /\ lastDiff # "none") =>
        /\ data = FullData(source)
        /\ mode_transitions = FullTransitions(source)

\* Two appending diff calls have run on a source never reset, and both the
\* line and the transition list hold several entries.
C1_Witness ==
    /\ appendOnly
    /\ lastDiff = "append"
    /\ appends >= 2
    /\ Len(data) >= 2
    /\ Len(mode_transitions) >= 2

\* C2 (Append classification): a diff call that finds the source longer than
\* the remembered count (> 0) with the remembered last time at index
\* (count - 1) appends: the old samples and transitions stay as a prefix, the
\* samples added are those of the states from index count on, and every
\* transition added stems from one of those states.
C2_AppendKeepsPrefix ==
    [][(UpdateCachesIfNecessary /\ ConfirmedAppend(cached_state, source)) =>
        /\ data' = data \o NewData(source, OldLen(cached_state))
        /\ IsPrefix(mode_transitions, mode_transitions')
        /\ \A i \in (Len(mode_transitions) + 1)..Len(mode_transitions') :
              mode_transitions'[i] \in ModePointsFrom(source, OldLen(cached_state))
      ]_vars

\* One diff call appended, and the line holds a sample for each of three
\* states: the append added to samples it kept.
C2_Witness ==
    /\ lastDiff = "append"
    /\ appends = 1
    /\ Len(data) = 3
    /\ Len(mode_transitions) >= 2

\* C3 (Full rebuild): a diff call that finds a fingerprint other than the
\* remembered one, and not the append case, leaves exactly the samples and
\* transitions of the whole current source, none from an earlier source.
C3_FullRebuild ==
    [][(/\ UpdateCachesIfNecessary
        /\ SourceFingerprint(source) # cached_state
        /\ ~ConfirmedAppend(cached_state, source)) =>
        /\ data' = FullData(source)
        /\ mode_transitions' = FullTransitions(source)
        /\ \A i \in 1..Len(dataOrigin') : dataOrigin'[i] = "cur"
        /\ \A i \in 1..Len(transOrigin') : transOrigin'[i] = "cur"
      ]_vars

\* A diff call replaced what was cached of an earlier source by the samples
\* and transitions of the present one.
C3_Witness ==
    /\ ~appendOnly
    /\ lastDiff = "rebuild"
    /\ data # <<>>
    /\ mode_transitions # <<>>

\* C4 (Idempotent idle diff): a diff call on a source that has not changed
\* since the diff call before it changes no sample, no transition and not
\* the remembered fingerprint.
C4_IdleDiff ==
    [][(UpdateCachesIfNecessary /\ lastDiff # "none") =>
        UNCHANGED <<data, mode_transitions, cached_state>>
      ]_vars

\* A second diff call has run on an unchanged, never reset source with a
\* filled cache.
C4_Witness ==
    /\ appendOnly
    /\ lastDiff = "idle"
    /\ data # <<>>
    /\ mode_transitions # <<>>

\* C5 (No mixing across a discontinuity): neither the line nor the
\* transition list ever holds entries extracted before a reset of the source
\* together with entries extracted after it.
C5_NoMixing ==
    /\ ~(\E i, j \in 1..Len(dataOrigin) : dataOrigin[i] = "old" /\ dataOrigin[j] = "cur")
    /\ ~(\E i, j \in 1..Len(transOrigin) : transOrigin[i] = "old" /\ transOrigin[j] = "cur")

\* The samples are sorted by time.
Sorted(d) == \A i, j \in 1..Len(d) : i < j => d[i][1] <= d[j][1]

\* A data_for_bounds(b) call that computes the view anew: source and cache
\* are not empty and b is not the last-cached bounds.
Recomputes(b) ==
    /\ DataForBounds(b)
    /\ source # <<>>
    /\ data # <<>>
    /\ last_bounds # Some(b)

\* C6 (Visible points): on a bounds change, the view returned for a
\* non-empty time-sorted cache is a contiguous range of it that holds every
\* sample with xmin <= t < xmax.
C6_VisiblePoints ==
    [][\A b \in Bounds : (Recomputes(b) /\ Sorted(data)) =>
        \E lo \in 0..Len(data) :
            /\ ret' = SubSeq(data, lo + 1, lo + Len(ret'))
            /\ \A i \in 1..Len(data) :
                  (b[1] <= data[i][1] /\ data[i][1] < b[2]) =>
                      (lo < i /\ i <= lo + Len(ret'))
      ]_vars

\* C7 (Upper padding): when the cache holds a sample below xmin and a sample
\* at or after xmax, the view computed for (xmin, xmax) holds a sample at or
\* after xmax.
C7_UpperPadding ==
    [][\A b \in Bounds :
        (/\ Recomputes(b)
         /\ Sorted(data)
         /\ \E i \in 1..Len(data) : data[i][1] < b[1]
         /\ \E i \in 1..Len(data) : data[i][1] >= b[2]) =>
        \E j \in 1..Len(ret') : ret'[j][1] >= b[2]
      ]_vars

\* C8 (Lower padding): when the cache holds a sample below xmin and a sample
\* at or after xmax, data_for_bounds(xmin, xmax) returns a view that holds a
\* sample at or before xmin.
C8_LowerPadding ==
    [][\A b \in Bounds :
        (/\ DataForBounds(b)
         /\ source # <<>>
         /\ data # <<>>
         /\ Sorted(data)
         /\ \E i \in 1..Len(data) : data[i][1] < b[1]
         /\ \E i \in 1..Len(data) : data[i][1] >= b[2]) =>
        \E j \in 1..Len(ret') : ret'[j][1] <= b[1]
      ]_vars

\* C9 (Exactly one padding sample per edge): the view computed for a
\* time-sorted cache holds exactly one sample below xmin when the cache has
\* one, and exactly one sample at or after xmax when the cache has one.
C9_OnePaddingPerEdge ==
    [][\A b \in Bounds : (Recomputes(b) /\ Sorted(data)) =>
        /\ (\E i \in 1..Len(data) : data[i][1] < b[1]) =>
              Cardinality({j \in 1..Len(ret') : ret'[j][1] < b[1]}) = 1
        /\ (\E i \in 1..Len(data) : data[i][1] >= b[2]) =>
              Cardinality({j \in 1..Len(ret') : ret'[j][1] >= b[2]}) = 1
      ]_vars

\* C10 (Window caching): a data_for_bounds call on a non-empty cache whose
\* bounds equal those of the call before it, the samples unchanged in
\* between, returns the same samples and leaves last_view, last_bounds and
\* stats as they were.
C10_WindowCaching ==
    [][\A b \in Bounds :
        (/\ lastCall # None
         /\ lastCall[1].b = b
         /\ data # <<>>
         /\ DataForBounds(b)) =>
        /\ ret' = ret
        /\ UNCHANGED <<last_view, last_bounds, stats>>
      ]_vars

\* The last call repeated the bounds of the call before it, returned samples
\* and left the statistics computed in between in place.
C10_Witness ==
    /\ lastCall # None
    /\ lastCall[1].again
    /\ data # <<>>
    /\ ret # <<>>
    /\ stats # None

\* C11 (View is a range of the samples): in every reachable state last_view
\* equals a contiguous index range of the line's current data.
C11_ViewIsRangeOfData ==
    \E lo \in 0..Len(data) : \E n \in 0..(Len(data) - lo) :
        last_view = SubSeq(data, lo + 1, lo + n)

\* C12 (Empty cache): while the line holds no samples, the window query of a
\* redraw returns an empty view and the stats() call that follows it returns
\* None.
C12_EmptyCache ==
    [][data = <<>> =>
        /\ \A b \in Bounds : PlotLinesData(b) => ret' = <<>>
        /\ PlotLinesStats(TRUE) => stats' = None
      ]_vars

\* C14 (Statistics match the view): in every reachable state, statistics
\* that are present are those of the current last_view, and they are absent
\* whenever last_view is empty.
C14_StatsMatchView ==
    /\ stats # None => (last_view # <<>> /\ stats = Some(StatsOf(last_view)))
    /\ last_view = <<>> => stats = None

\* Statistics are present for a view of two samples with different values.
C14_Witness ==
    /\ stats # None
    /\ Len(last_view) = 2
    /\ last_view[1][2] # last_view[2][2]

\* Statistics of a view as stats() returns them: None for an empty view.
StatsOrNone(view) == IF view = <<>> THEN None ELSE Some(StatsOf(view))

\* C13 (Lazy statistics): a stats() call that follows an earlier stats()
\* call, with no window query of other bounds (and no change of the samples)
\* in between, computes nothing and returns what the earlier call returned;
\* a stats() call that follows no such call returns the statistics of the
\* view the window query before it returned.
C13_LazyStats ==
    [][PlotLinesStatsTracked(TRUE) =>
        IF lastStats # None
        THEN /\ ~(stats = None /\ last_view # <<>>)
             /\ stats' = lastStats[1].val
        ELSE stats' = StatsOrNone(ret)
      ]_vars

\* C15 (Redraw order): the statistics a redraw returns are those of the view
\* that the window computation yields for the requested bounds on the samples
\* as that redraw's diff step left them, also when the bounds equal those of
\* the redraw before.
C15_RedrawOrder ==
    [][PlotLinesStats(TRUE) =>
        stats' \in {StatsOrNone(v) :
                      v \in IF data = <<>> THEN {<<>>} ELSE Views(data, lastCall[1].b)}
      ]_vars

\* The elements of a set of numbers in ascending order.
RECURSIVE Ascending(_)
Ascending(S) ==
    IF S = {} THEN <<>>
    ELSE LET m == CHOOSE x \in S : \A y \in S : x <= y
         IN  <<m>> \o Ascending(S \ {m})

\* The indices of the states of src whose mode is present and differs from
\* the mode of the last state before them that has one.
ModeChanges(src) ==
    {i \in 1..Len(src) :
        /\ src[i].mode # None
        /\ LET prev == {j \in 1..(i - 1) : src[j].mode # None}
           IN  prev = {} \/ src[CHOOSE j \in prev : \A k \in prev : k <= j].mode # src[i].mode}

\* C16 (Transition extraction): after a diff call the transition list holds
\* (time, mode) of exactly the states whose mode is present and differs from
\* the mode of the preceding state that has one, in source order, and no two
\* consecutive transitions carry the same mode.
C16_TransitionExtraction ==
    lastDiff # "none" =>
        LET idx == Ascending(ModeChanges(source))
        IN  /\ mode_transitions =
                  [k \in 1..Len(idx) |->
                      <<PlotTime(source[idx[k]].t, source), source[idx[k]].mode[1]>>]
            /\ \A k \in 1..(Len(mode_transitions) - 1) :
                  mode_transitions[k][2] # mode_transitions[k + 1][2]

\* C17 (Monotonic transitions): on a source that was only ever appended to, a
\* diff call keeps the transition list as a prefix of the new one and the
\* times of the list are non-decreasing; the list gets shorter only in a diff
\* call that rebuilds or finds the source empty.
C17_MonotonicTransitions ==
    [][/\ (appendOnly /\ UpdateCachesIfNecessary) =>
              IsPrefix(mode_transitions, mode_transitions')
       /\ appendOnly =>
              \A i, j \in 1..Len(mode_transitions') :
                  i < j => mode_transitions'[i][1] <= mode_transitions'[j][1]
       /\ Len(mode_transitions') < Len(mode_transitions) =>
              lastDiff' \in {"rebuild", "clear"}
      ]_vars

\* Three transitions at two different times were recorded by a build and two
\* appends on a source never reset.
C17_Witness ==
    /\ appendOnly
    /\ lastDiff = "append"
    /\ appends = 2
    /\ Len(mode_transitions) = 3
    /\ mode_transitions[1][1] < mode_transitions[3][1]

\* C19 (Missing values are skipped): after a diff call the line holds one
\* sample [time, value] per state of the source that yields a value, in
\* source order, and nothing else.
C19_MissingValuesSkipped ==
    lastDiff # "none" =>
        LET idx == Ascending({i \in 1..Len(source) : source[i].v # None})
        IN  data = [k \in 1..Len(idx) |->
                      <<PlotTime(source[idx[k]].t, source), source[idx[k]].v[1]>>]

\* C18 (Samples monotonic, replaced wholesale): over time-sorted sources the
\* line's samples are non-decreasing in time in every state, and a diff call
\* leaves them unchanged, extends them with the old list as a prefix, empties
\* them or replaces them by the samples of the whole source.
C18_SamplesMonotonic ==
    [][/\ Sorted(data')
       /\ UpdateCachesIfNecessary =>
              \/ data' = data
              \/ IsPrefix(data, data')
              \/ data' = <<>>
              \/ data' = FullData(source)
      ]_vars

\* C20 (clear): the clear_cache of a diff call on an empty source leaves the
\* line without samples, without a cached view and bounds, and without
\* statistics.
C20_ClearCache ==
    [][(UpdateCachesIfNecessary /\ source = <<>>) =>
        /\ data' = <<>>
        /\ last_view' = <<>>
        /\ last_bounds' = None
        /\ stats' = None
      ]_vars

\* ------------------------------------------------------- viewport claims

\* C21 (zoom while attached): a pass that starts attached and is reported a
\* zoom alone leaves reset_on_next_draw set and attached_to_edge true, and the
\* next pass, when it reports no events, leaves attached_to_edge true and
\* reset_on_next_draw false.
C21_ZoomWhileAttached ==
    [][(/\ lastPass # None
        /\ ZoomOnly(lastPass[1].ev)
        /\ lastPass[1].read.attached_to_edge) =>
           /\ Viewport(lastPass[1].chart).reset_on_next_draw
           /\ Viewport(lastPass[1].chart).attached_to_edge
           /\ (lastPass' # None /\ NoEvents(lastPass'[1].ev)) =>
                 /\ shared'[SharedOf(lastPass'[1].chart)].attached_to_edge
                 /\ ~shared'[SharedOf(lastPass'[1].chart)].reset_on_next_draw
      ]_vars

\* An idle pass has honoured the reset a zoom left pending.
C21_Witness ==
    /\ lastPass # None
    /\ NoEvents(lastPass[1].ev)
    /\ lastPass[1].read.reset_on_next_draw
    /\ lastPass[1].read.attached_to_edge
    /\ lastPass[1].applied
    /\ zooms > 0
    /\ Viewport(lastPass[1].chart).attached_to_edge
    /\ ~Viewport(lastPass[1].chart).reset_on_next_draw

\* C22 (any drag ends detached): after a pass that reports a primary drag or
\* processes the release of a secondary drag (and reports no double click),
\* and after the passes without events that follow it, attached_to_edge is
\* false.
C22_DragDetaches ==
    (lastPass # None /\ lastPass[1].since_drag) =>
        ~Viewport(lastPass[1].chart).attached_to_edge

\* C23 (double click): after a pass that reports a primary double click,
\* whatever else it reports, attached_to_edge is true and reset_on_next_draw
\* is false.
C23_DoubleClick ==
    (lastPass # None /\ lastPass[1].ev.double_clicked) =>
        /\ Viewport(lastPass[1].chart).attached_to_edge
        /\ ~Viewport(lastPass[1].chart).reset_on_next_draw

C25_ReleaseDetaches ==
    (lastPass # None /\ lastPass[1].ev.drag_released) =>
        LET before == lastPass[1].before_release
            after == lastPass[1].after_release
        IN  IF before.box_dragging
            THEN /\ ~after.attached_to_edge
                 /\ ~after.box_dragging
                 /\ ~Viewport(lastPass[1].chart).attached_to_edge
            ELSE /\ after.attached_to_edge = before.attached_to_edge
                 /\ after.box_dragging = before.box_dragging
                 /\ Viewport(lastPass[1].chart).attached_to_edge = before.attached_to_edge

\* A release ended a box drag on an attached view.
C25_Witness ==
    /\ lastPass # None
    /\ lastPass[1].ev.drag_released
    /\ lastPass[1].before_release.box_dragging
    /\ lastPass[1].before_release.attached_to_edge
    /\ ~Viewport(lastPass[1].chart).attached_to_edge
    /\ ~Viewport(lastPass[1].chart).box_dragging

\* C26 (one-shot reset flags): a pass applies an axis reset exactly when it
\* finds the shared or its cache's reset_on_next_draw set; both flags are
\* false when it shows the plot, and after the pass the shared flag is set
\* only if the pass itself reported a zoom, so that a request is honoured by
\* one pass only.
C26_OneShotReset ==
    lastPass # None =>
        /\ lastPass[1].applied <=>
               (lastPass[1].read.reset_on_next_draw \/ lastPass[1].read_cache)
        /\ ~lastPass[1].shown.cache
        /\ ~lastPass[1].shown.shared
        /\ Viewport(lastPass[1].chart).reset_on_next_draw => ZoomReported(lastPass[1].ev)

\* A pass found both flags set, applied the reset and left both cleared.
C26_Witness ==
    /\ lastPass # None
    /\ lastPass[1].read.reset_on_next_draw
    /\ lastPass[1].read_cache
    /\ lastPass[1].applied
    /\ ~cache_reset_on_next_draw[lastPass[1].chart]
    /\ ~Viewport(lastPass[1].chart).reset_on_next_draw

\* C27 (linked charts): what a chart reads of attached_to_edge, view_width
\* and box_dragging at the start of its pass is what the chart of the pass
\* before it left there.
C27_LinkedCharts ==
    [][(lastPass # None /\ lastPass' # None /\ lastPass' # lastPass) =>
           LinkedFields(lastPass'[1].read) = LinkedFields(Viewport(lastPass[1].chart))
      ]_vars

\* A chart has rendered right after another chart's pass changed a linked
\* field, and read the changed value.
C27_Witness ==
    /\ lastPass # None
    /\ lastPass[1].after_other
    /\ LinkedFields(lastPass[1].read) # LinkedFields(SharedPlotStateNew)

\* ----------------------------------------------------------------- totality

\* C28 (totality): whatever samples the line holds and whatever the bounds,
\* in order or not, below, above or around the cached range, the indices
\* data_for_bounds slices with satisfy 0 <= imin <= imax <= length; and the
\* state update_caches_if_necessary looks up at the old count exists whenever
\* the source has grown beyond a remembered count.
C28_Totality ==
    /\ data # <<>> =>
          \A b \in BoundXs \X BoundXs :
              \A ix \in WindowIndices(data, b) :
                  0 <= ix[1] /\ ix[1] <= ix[2] /\ ix[2] <= Len(data)
    /\ cached_state # None => OldLen(cached_state) >= 1
    /\ (source # <<>> /\ Len(source) > OldLen(cached_state) /\ OldLen(cached_state) > 0) =>
          OldLen(cached_state) \in DOMAIN source

\* The diff call has looked up the state at the old count and appended, the
\* line holds a single sample, and bounds entirely above it yield the
\* indices <<0, 0>>.
C28_Witness ==
    /\ Len(data) = 1
    /\ lastDiff = "append"
    /\ OldLen(cached_state) >= 2
    /\ WindowIndices(data, <<data[1][1] + 1, data[1][1] + 1>>) = {<<0, 0>>}

\* ------------------------------------------------ viewport claims, second

\* C29 (horizontal scroll detaches): after a pass in which the pointer hovers
\* the chart and a horizontal scroll is reported (and no double click),
\* attached_to_edge is false.
C29_ScrollDetaches ==
    (/\ lastPass # None
     /\ lastPass[1].ev.hover
     /\ lastPass[1].ev.scroll
     /\ ~lastPass[1].ev.double_clicked) =>
        ~Viewport(lastPass[1].chart).attached_to_edge

\* C30 (secondary drag): a pass that reports a secondary drag ends with
\* box_dragging true, and the drag leaves attached_to_edge as the blocks
\* before process_drag_released set it unless a release ends a box drag in
\* the same pass; box_dragging, once true, is true after every pass that
\* processes no release.
C30_BoxDragging ==
    [][lastPass' # None =>
         /\ lastPass'[1].ev.dragged_secondary =>
                /\ shared'[SharedOf(lastPass'[1].chart)].box_dragging
                /\ shared'[SharedOf(lastPass'[1].chart)].attached_to_edge =
                       lastPass'[1].after_release.attached_to_edge
                /\ ~lastPass'[1].ev.drag_released =>
                       lastPass'[1].after_release.attached_to_edge =
                           lastPass'[1].before_release.attached_to_edge
         /\ (/\ lastPass' # lastPass
             /\ shared[SharedOf(lastPass'[1].chart)].box_dragging
             /\ ~lastPass'[1].ev.drag_released) =>
                shared'[SharedOf(lastPass'[1].chart)].box_dragging
      ]_vars

\* A secondary drag was reported on an attached view, box_dragging is set and
\* has stayed so through a pass without events, the view still attached.
C30_Witness ==
    /\ lastPass # None
    /\ NoEvents(lastPass[1].ev)
    /\ lastPass[1].read.box_dragging
    /\ Viewport(lastPass[1].chart).box_dragging
    /\ Viewport(lastPass[1].chart).attached_to_edge

\* C29 (horizontal scroll detaches), amended: after a pass in which the
\* pointer hovers the chart and a horizontal scroll is reported, with no zoom
\* and no double click in the same pass, attached_to_edge is false.
C29_ScrollWithoutZoomDetaches ==
    (/\ lastPass # None
     /\ lastPass[1].ev.hover
     /\ lastPass[1].ev.scroll
     /\ ~ZoomReported(lastPass[1].ev)
     /\ ~lastPass[1].ev.double_clicked) =>
        ~Viewport(lastPass[1].chart).attached_to_edge

\* A horizontal scroll alone has detached an attached view.
C29_Witness ==
    /\ lastPass # None
    /\ lastPass[1].ev.hover
    /\ lastPass[1].ev.scroll
    /\ NoEvents([lastPass[1].ev EXCEPT !.scroll = FALSE])
    /\ lastPass[1].read.attached_to_edge
    /\ ~lastPass[1].applied
    /\ ~Viewport(lastPass[1].chart).attached_to_edge

\* ------------------------------------------------- claims on the cache, II

\* C31 (min, max, mean): a stats() call on a non-empty last_view returns
\* statistics whose min is the smallest and whose max is the largest value of
\* last_view, and whose mean is sum / count and lies between the two.
C31_MinMaxMean ==
    [][(PlotLinesStats(TRUE) /\ last_view # <<>>) =>
        /\ stats' # None
        /\ LET ys == Ys(last_view)
               mean == stats'[1][1]
               min == stats'[1][3]
               max == stats'[1][4]
           IN  /\ \E i \in 1..Len(ys) : ys[i] = min
               /\ \A i \in 1..Len(ys) : min <= ys[i]
               /\ \E i \in 1..Len(ys) : ys[i] = max
               /\ \A i \in 1..Len(ys) : ys[i] <= max
               /\ mean[1] * Len(ys) = SumOf(ys) * mean[2]
               /\ min * mean[2] <= mean[1]
               /\ mean[1] <= max * mean[2]
      ]_vars

\* stats() has returned a mean strictly between min and max, for a view whose
\* larger value comes first.
C31_Witness ==
    /\ pc = "idle"
    /\ stats # None
    /\ Len(last_view) = 2
    /\ last_view[1][2] > last_view[2][2]
    /\ stats[1][3] * stats[1][1][2] < stats[1][1][1]
    /\ stats[1][1][1] < stats[1][4] * stats[1][1][2]

\* C32 (fingerprint invariant): after a diff call, and until the source
\* changes, the remembered fingerprint is absent exactly when the source is
\* empty, and else it is (time of the source's last state, count of the
\* source).
C32_FingerprintInvariant ==
    lastDiff # "none" =>
        /\ cached_state = None <=> source = <<>>
        /\ source # <<>> =>
              cached_state = Some(<<source[Len(source)].t, Len(source)>>)

\* A diff call found the source empty and forgot the fingerprint of the
\* source reset before it.
C32_Witness ==
    /\ lastDiff = "clear"
    /\ ~appendOnly
    /\ pushed >= 2
    /\ cached_state = None

\* C33 (empty source): a diff call on an empty source leaves the line without
\* samples, the transition list empty and no fingerprint remembered; only a
\* diff call writes the fingerprint; and a diff call that finds no
\* fingerprint and a non-empty source keeps nothing (keep_first = 0) and
\* leaves the samples and transitions of one full rebuild over that source.
C33_EmptySource ==
    [][/\ (UpdateCachesIfNecessary /\ source = <<>>) =>
              /\ data' = <<>>
              /\ mode_transitions' = <<>>
              /\ cached_state' = None
       /\ cached_state' # cached_state => UpdateCachesIfNecessary
       /\ (UpdateCachesIfNecessary /\ cached_state = None /\ source # <<>>) =>
              /\ KeepFirst(cached_state, source) = 0
              /\ data' = FullData(source)
              /\ mode_transitions' = FullTransitions(source)
              /\ \A i \in 1..Len(dataOrigin') : dataOrigin'[i] = "cur"
              /\ \A i \in 1..Len(transOrigin') : transOrigin'[i] = "cur"
      ]_vars

\* A diff call appended, a later one found the source empty, and the one after
\* it has built the cache from the refilled source.
C33_Witness ==
    /\ appends >= 1
    /\ ~appendOnly
    /\ lastDiff = "build"
    /\ data # <<>>
    /\ mode_transitions # <<>>

\* C34 (the last sample is never in a view): a data_for_bounds call that
\* computes the view anew slices the samples with an exclusive upper index of
\* at most length - 1, whatever the bounds: the view is a range of the
\* samples before the last one, it holds no sample equal to the last one
\* unless an earlier sample equals it, and for a single sample it is empty.
C34_LastSampleNeverInView ==
    [][\A b \in Bounds : Recomputes(b) =>
        LET len == Len(data)
        IN  /\ \A w \in WindowIndices(data, b) : w[2] <= len - 1
            /\ last_view' = ret'
            /\ \E lo, hi \in 0..(len - 1) : ret' = SubSeq(data, lo + 1, hi)
            /\ (\A i \in 1..(len - 1) : data[i] # data[len]) =>
                   \A j \in 1..Len(ret') : ret'[j] # data[len]
            /\ len = 1 => ret' = <<>>
      ]_vars

\* The view was computed for bounds that span all three samples, the last of
\* them unlike the others, and holds the first two.
C34_Witness ==
    /\ source # <<>>
    /\ Len(data) = 3
    /\ data[3] # data[1]
    /\ data[3] # data[2]
    /\ lastCall # None
    /\ lastCall[1].b = <<0, MaxT + 1>>
    /\ last_bounds = Some(<<0, MaxT + 1>>)
    /\ ret = SubSeq(data, 1, 2)

\* C35 (what invalidates the cached view): only data_for_bounds writes the
\* cached bounds and the cached view; a call on a non-empty source and cache
\* with the bounds of the call before it, that call not having found source
\* or cache empty, returns what that call returned and leaves last_view,
\* last_bounds and stats as they were, also when a diff call appended to the
\* samples or replaced them in between.
C35_ViewKeyedOnBounds ==
    [][/\ (last_bounds' # last_bounds \/ last_view' # last_view) =>
              \E b \in Bounds : DataForBounds(b)
       /\ \A b \in Bounds :
              (/\ DataForBounds(b)
               /\ source # <<>>
               /\ data # <<>>
               /\ last_bounds = Some(b)) =>
                  /\ ret' = ret
                  /\ UNCHANGED <<last_view, last_bounds, stats>>
      ]_vars

\* A diff call rebuilt the samples from another source, and the window query
\* after it, with the bounds of the query before, returned a view that is
\* none of the new samples.
C35_Witness ==
    /\ pc = "stats"
    /\ lastDiff = "rebuild"
    /\ source # <<>>
    /\ data # <<>>
    /\ lastCall # None
    /\ last_bounds = Some(lastCall[1].b)
    /\ ret = last_view
    /\ ret \notin Views(data, lastCall[1].b)
    /\ \E i \in 1..Len(ret) : \A j \in 1..Len(data) : ret[i] # data[j]

\* ---------------------------------------------------- viewport claims, II

\* The step is a redraw pass (in a state with a reset pending, where a pass
\* clears the flag or counts a zoom).
PassStep == <<shared, zooms, lastPass>>' # <<shared, zooms, lastPass>>

\* C36 (a pending reset re-attaches): when a pass was reported a zoom with
\* the view attached and has ended with the view detached (by the primary
\* drag or the completed box zoom of the same pass), the reset is still
\* pending, and the next pass applies it: after its reset block
\* attached_to_edge is true, and it stays true to the end of that pass
\* unless the pass itself is reported a primary drag, a scroll or a release.
C36_PendingResetReattaches ==
    [][(/\ lastPass # None
        /\ ZoomReported(lastPass[1].ev)
        /\ HonorReset(lastPass[1].read, lastPass[1].read_cache).attached_to_edge
        /\ ~Viewport(lastPass[1].chart).attached_to_edge
        /\ PassStep) =>
           /\ Viewport(lastPass[1].chart).reset_on_next_draw
           /\ lastPass'[1].read = Viewport(lastPass[1].chart)
           /\ lastPass'[1].applied
           /\ HonorReset(lastPass'[1].read, lastPass'[1].read_cache).attached_to_edge
           /\ (/\ ~lastPass'[1].ev.dragged_primary
               /\ ~lastPass'[1].ev.scroll
               /\ ~lastPass'[1].ev.drag_released) =>
                  shared'[SharedOf(lastPass'[1].chart)].attached_to_edge
      ]_vars

\* A pass without events has re-attached the view that the passes since a
\* primary drag had left detached with a reset pending.
C36_Witness ==
    /\ lastPass # None
    /\ NoEvents(lastPass[1].ev)
    /\ lastPass[1].since_drag
    /\ ~lastPass[1].read_cache
    /\ lastPass[1].read.reset_on_next_draw
    /\ ~lastPass[1].read.attached_to_edge
    /\ lastPass[1].applied
    /\ Viewport(lastPass[1].chart).attached_to_edge

\* C37 (zoom while detached): a process_zoom call on a state with
\* attached_to_edge false leaves attached_to_edge false and
\* reset_on_next_draw false, whether or not a reset was pending, and leaves
\* box_dragging as it was.
C37_ZoomWhileDetached ==
    (lastPass # None /\ ~lastPass[1].read.attached_to_edge) =>
        /\ ~shared[lastPass[1].cell].attached_to_edge
        /\ ~shared[lastPass[1].cell].reset_on_next_draw
        /\ shared[lastPass[1].cell].box_dragging = lastPass[1].read.box_dragging

\* process_zoom was called on a detached state with a reset pending, and the
\* state is detached at half the width with no reset pending.
C37_Witness ==
    /\ lastPass # None
    /\ ~lastPass[1].read.attached_to_edge
    /\ lastPass[1].read.reset_on_next_draw
    /\ shared[lastPass[1].cell].view_width = <<5, 1>>
    /\ ~shared[lastPass[1].cell].attached_to_edge
    /\ ~shared[lastPass[1].cell].reset_on_next_draw

\* C38 (one chart consumes the pending reset): when a pass has left the
\* shared reset flag set, the next pass, of whichever linked chart, finds it
\* set, applies the axis reset and clears it before its plot is shown; and
\* the pass after a pass that consumed the flag and was reported no zoom
\* finds it cleared and applies a reset only when its own cache asks for one.
C38_OneChartConsumesReset ==
    [][/\ (/\ lastPass # None
           /\ Viewport(lastPass[1].chart).reset_on_next_draw
           /\ PassStep) =>
              /\ lastPass'[1].read.reset_on_next_draw
              /\ lastPass'[1].applied
              /\ ~lastPass'[1].shown.shared
       /\ (/\ lastPass # None
           /\ lastPass[1].read.reset_on_next_draw
           /\ ~ZoomReported(lastPass[1].ev)
           /\ lastPass' # lastPass) =>
              /\ lastPass[1].applied
              /\ ~lastPass'[1].read.reset_on_next_draw
              /\ lastPass'[1].applied <=> lastPass'[1].read_cache
      ]_vars

\* A chart has rendered right after another chart's zoom, found the shared
\* flag set with no request of its own, applied the reset and left the flag
\* cleared for the charts rendered after it.
C38_Witness ==
    /\ lastPass # None
    /\ lastPass[1].after_other
    /\ lastPass[1].read.view_width # SharedPlotStateNew.view_width
    /\ lastPass[1].read.reset_on_next_draw
    /\ ~lastPass[1].read_cache
    /\ lastPass[1].applied
    /\ NoEvents(lastPass[1].ev)
    /\ \A c \in Charts : ~Viewport(c).reset_on_next_draw
    /\ \A c \in Charts : ~cache_reset_on_next_draw[c]

\* ------------------------------------------------- claims on the cache, III

RECURSIVE Dedup(_)
Dedup(seq) ==
    IF Len(seq) <= 1 THEN seq
    ELSE IF seq[1] = seq[2] THEN Dedup(Tail(seq))
    ELSE <<seq[1]>> \o Dedup(Tail(seq))

\* The modes of the states of src that have one, in source order.
ModesOf(src) ==
    LET withMode == SelectSeq(src, LAMBDA s : s.mode # None)
    IN  [i \in 1..Len(withMode) |-> withMode[i].mode[1]]

\* C40 (states without a mode are ignored): after a diff call that rebuilt,
\* or any diff call on a source only ever appended to, the modes of the
\* transition list are the modes of the states that have one with the
\* repeats dropped, as if the states without a mode were not there, and every
\* transition carries the time of a state with that mode; so the modes
\* A, (none), A leave a single transition, however the states were split over
\* the diff calls.
C40_ModelessIgnored ==
    (lastDiff \in {"build", "rebuild"} \/ (appendOnly /\ lastDiff # "none")) =>
        /\ [k \in 1..Len(mode_transitions) |-> mode_transitions[k][2]] =
               Dedup(ModesOf(source))
        /\ \A k \in 1..Len(mode_transitions) :
               mode_transitions[k] \in ModePointsFrom(source, 0)

\* The modes A, (none), A came in one state per diff call, a build and two
\* appends, and left one transition.
C40_Witness ==
    /\ appendOnly
    /\ lastDiff = "append"
    /\ appends = 2
    /\ Len(source) = 3
    /\ source[1].mode # None
    /\ source[2].mode = None
    /\ source[3].mode = source[1].mode
    /\ Len(mode_transitions) = 1

=============================================================================
